---- MODULE Spec2Model ----
(***************************************************************************)
(* Model of the unified-diff core of the llm-service:                      *)
(*   app/utils/diff_parser.py   parse_unified_diff, generate_file_diff,    *)
(*                              chunk_diff_by_files                        *)
(*   app/utils/token_counter.py count_tokens, optimize_diff_context        *)
(*                                                                         *)
(* A text is a sequence of lines (what str.splitlines() yields); a line is *)
(* a sequence of one-character strings, so that the regular expressions    *)
(* of the parser and the f-strings of the serializer are modelled by what  *)
(* they do to characters.                                                  *)
(***************************************************************************)
EXTENDS Integers, Sequences, FiniteSets, TLC

\* ------------------------------------------------------------------ bounds
\* Longest input (in lines) fed to the parser under Spec (arbitrary lines).
MaxLines == 5
\* Under SpecDiff (diffs built by the grammar of unified diffs): the most
\* lines and the most file sections of one input.
MaxDiffLines == 8
MaxFiles == 2
\* The budgets max_tokens is drawn from: -BudgetStep (a negative budget), 0,
\* BudgetStep, ..., MaxBudgetSteps * BudgetStep.
BudgetStep == 16
MaxBudgetSteps == 3
\* The sizes max_chunk_size is drawn from: ChunkStep, ..., MaxChunkSteps * ChunkStep.
ChunkStep == 13
MaxChunkSteps == 3

\* ------------------------------------------------------- python constants
\* Python's None where an object reference is expected: object references
\* are indices into objs, 0 is None.
None == 0
\* DiffLine's default for an absent line number (None).
NoNum == -1
\* A local that has not been bound yet (reading it raises UnboundLocalError).
Unbound == -2
\* old_path / new_path before any header line was seen (None).
NonePath == <<"None">>

\* --------------------------------------------------------- text helpers
HasPrefix(s, p) == Len(s) >= Len(p) /\ SubSeq(s, 1, Len(p)) = p
Drop(s, n) == SubSeq(s, n + 1, Len(s))

Digits == <<"0", "1", "2", "3", "4", "5", "6", "7", "8", "9">>
IsDigit(c) == \E d \in 1..10 : Digits[d] = c
DigitVal(c) == (CHOOSE d \in 1..10 : Digits[d] = c) - 1

\* End (exclusive) of the run of digits of s that starts at index i: \d+ is
\* greedy, and what follows a number in the patterns is never a digit.
RECURSIVE DigitsEnd(_, _)
DigitsEnd(s, i) ==
    IF i <= Len(s) /\ IsDigit(s[i]) THEN DigitsEnd(s, i + 1) ELSE i

\* int(): the decimal value of a sequence of digits.
RECURSIVE int(_)
int(ds) ==
    IF ds = <<>> THEN 0
    ELSE 10 * int(SubSeq(ds, 1, Len(ds) - 1)) + DigitVal(ds[Len(ds)])

\* f"{n}" for a non-negative integer.
RECURSIVE str(_)
str(n) ==
    IF n < 10 THEN <<Digits[n + 1]>>
    ELSE str(n \div 10) \o <<Digits[(n % 10) + 1]>>

\* ------------------------------------------------------------- patterns
\* r'^diff --git a/(.*) b/(.*)$'
file_header_prefix ==
    <<"d", "i", "f", "f", " ", "-", "-", "g", "i", "t", " ", "a", "/">>
file_header_pattern(line) ==
    /\ HasPrefix(line, file_header_prefix)
    /\ \E i \in (Len(file_header_prefix) + 1)..(Len(line) - 2) :
          SubSeq(line, i, i + 2) = <<" ", "b", "/">>

\* The (.*?)(?:\t.*)?$ tail of both path patterns: the lazy group stops at
\* the first tab, or runs to the end of the line.
UpToTab(s) ==
    IF \E i \in 1..Len(s) : s[i] = "\t"
    THEN SubSeq(s, 1, (CHOOSE i \in 1..Len(s) :
                          s[i] = "\t" /\ \A j \in 1..(i - 1) : s[j] # "\t") - 1)
    ELSE s

\* group(1) of (?:P)?(.*?)(?:\t.*)?$ applied to the rest of a header line.
PathGroup(rest, P) ==
    UpToTab(IF HasPrefix(rest, P) THEN Drop(rest, Len(P)) ELSE rest)

\* r'^--- (?:a/)?(.*?)(?:\t.*)?$'
old_file_pattern(line) == HasPrefix(line, <<"-", "-", "-", " ">>)
old_match_group1(line) == PathGroup(Drop(line, 4), <<"a", "/">>)

\* r'^\+\+\+ (?:b/)?(.*?)(?:\t.*)?$'
new_file_pattern(line) == HasPrefix(line, <<"+", "+", "+", " ">>)
new_match_group1(line) == PathGroup(Drop(line, 4), <<"b", "/">>)

\* One "(\d+)(?:,(\d+))?" of the hunk header, read at index i:
\* [ok, start, count (the digits of group 2, <<>> when the group is absent), next].
HunkRange(s, i) ==
    LET e1 == DigitsEnd(s, i)
        e2 == DigitsEnd(s, e1 + 1)
        comma == e1 <= Len(s) /\ s[e1] = "," /\ e2 > e1 + 1
    IN  [ok    |-> e1 > i,
         start |-> SubSeq(s, i, e1 - 1),
         count |-> IF comma THEN SubSeq(s, e1 + 1, e2 - 1) ELSE <<>>,
         next  |-> IF comma THEN e2 ELSE e1]

\* r'^@@ -(\d+)(?:,(\d+))? \+(\d+)(?:,(\d+))? @@' with re.match: anything may
\* follow the closing @@.  The groups, or ok = FALSE when there is no match.
hunk_header_pattern(line) ==
    LET o == HunkRange(line, 5)
        n == HunkRange(line, o.next + 2)
    IN  IF /\ HasPrefix(line, <<"@", "@", " ", "-">>)
           /\ o.ok
           /\ HasPrefix(Drop(line, o.next - 1), <<" ", "+">>)
           /\ n.ok
           /\ HasPrefix(Drop(line, n.next - 1), <<" ", "@", "@">>)
        THEN [ok |-> TRUE, g1 |-> o.start, g2 |-> o.count,
              g3 |-> n.start, g4 |-> n.count]
        ELSE [ok |-> FALSE, g1 |-> <<>>, g2 |-> <<>>, g3 |-> <<>>, g4 |-> <<>>]

\* int(group or 1)
IntOr1(g) == IF g = <<>> THEN 1 ELSE int(g)

\* ----------------------------------------------------------- data model
DiffFile(old, new) == [old_path |-> old, new_path |-> new, hunks |-> <<>>]
DiffHunk(os, oc, ns, nc) ==
    [old_start |-> os, old_count |-> oc, new_start |-> ns, new_count |-> nc,
     lines |-> <<>>]
DiffLine(content, line_type, old_num, new_num) ==
    [content |-> content, line_type |-> line_type,
     old_line_num |-> old_num, new_line_num |-> new_num]

\* DiffFile.get_path
get_path(file) ==
    IF file.new_path # <<"/", "d", "e", "v", "/", "n", "u", "l", "l">>
    THEN file.new_path ELSE file.old_path

\* --------------------------------------------------------------- parser
\* A hunk reference names the DiffFile object that holds the hunk and the
\* hunk's position in its hunks list; NoneHunk is current_hunk = None.
NoneHunk == <<>>

\* The locals of parse_unified_diff after lines 53-65. objs is the heap of
\* DiffFile objects, in order of instantiation; files and current_file hold
\* references (indices) into it.
ParserInit ==
    [files |-> <<>>, objs |-> <<>>, current_file |-> None,
     current_hunk |-> NoneHunk, old_path |-> NonePath, new_path |-> NonePath,
     old_line_num |-> Unbound, new_line_num |-> Unbound, raised |-> "no"]

\* files.append(current_file) when a file is open.
Flush(st) ==
    IF st.current_file # None THEN Append(st.files, st.current_file)
    ELSE st.files

\* "if file_match:" branch.
OnFileHeader(st) ==
    [st EXCEPT !.files = Flush(st), !.old_path = NonePath,
               !.new_path = NonePath, !.current_file = None,
               !.current_hunk = NoneHunk]

\* "if old_match:" branch.
OnOldPath(st, line) == [st EXCEPT !.old_path = old_match_group1(line)]

\* "if new_match:" branch.
OnNewPath(st, line) ==
    LET np == new_match_group1(line)
    IN  IF st.old_path # NonePath /\ np # NonePath
        THEN [st EXCEPT !.new_path = np,
                        !.objs = Append(@, DiffFile(st.old_path, np)),
                        !.current_file = Len(st.objs) + 1]
        ELSE [st EXCEPT !.new_path = np]

\* Mutant of HunkGuard: the test for an open file is missing.
HunkGuardNoFile(st) == TRUE
\* The second conjunct of "if hunk_match and current_file is not None".
HunkGuard(st) == st.current_file # None

\* Body of the hunk-header branch; current_file.hunks raises AttributeError
\* when current_file is None.
OnHunkHeader(st, m) ==
    IF st.current_file = None THEN [st EXCEPT !.raised = "AttributeError"]
    ELSE
    LET f == st.current_file
        h == DiffHunk(int(m.g1), IntOr1(m.g2), int(m.g3), IntOr1(m.g4))
    IN  [st EXCEPT !.objs[f].hunks = Append(@, h),
                   !.current_hunk = <<f, Len(st.objs[f].hunks) + 1>>,
                   !.old_line_num = h.old_start,
                   !.new_line_num = h.new_start]

\* current_hunk.lines.append(l)
AppendLine(st, l) ==
    [st EXCEPT !.objs[st.current_hunk[1]].hunks[st.current_hunk[2]].lines =
                   Append(@, l)]

\* Mutant of Advance: a context line moves no cursor.
AdvanceChangesOnly(st, line_type) ==
    [st EXCEPT !.old_line_num = IF line_type = "deletion" THEN @ + 1 ELSE @,
               !.new_line_num = IF line_type = "addition" THEN @ + 1 ELSE @]
\* The cursor updates after an appended line, by line type.
Advance(st, line_type) ==
    [st EXCEPT !.old_line_num =
                   IF line_type \in {"deletion", "context"} THEN @ + 1 ELSE @,
               !.new_line_num =
                   IF line_type \in {"addition", "context"} THEN @ + 1 ELSE @]

\* Mutant of MakeLine: both cursors are recorded on every line.
MakeLineBothNumbers(st, line, line_type) ==
    DiffLine(Drop(line, 1), line_type, st.old_line_num, st.new_line_num)
\* The DiffLine built for a content line of the given type.
MakeLine(st, line, line_type) ==
    DiffLine(Drop(line, 1), line_type,
             IF line_type = "addition" THEN NoNum ELSE st.old_line_num,
             IF line_type = "deletion" THEN NoNum ELSE st.new_line_num)

\* "if current_hunk is not None:" branch. Reading a cursor that was never
\* bound raises UnboundLocalError.
OnContent(st, line) ==
    LET line_type ==
            IF HasPrefix(line, <<"+">>) THEN "addition"
            ELSE IF HasPrefix(line, <<"-">>) THEN "deletion"
            ELSE IF HasPrefix(line, <<" ">>) THEN "context"
            ELSE "skip"
    IN  IF line_type = "skip" THEN st
        ELSE IF \/ (line_type # "addition" /\ st.old_line_num = Unbound)
                \/ (line_type # "deletion" /\ st.new_line_num = Unbound)
        THEN [st EXCEPT !.raised = "UnboundLocalError"]
        ELSE Advance(AppendLine(st, MakeLine(st, line, line_type)), line_type)

\* One iteration of "for line in lines:".
ParseLine(st, line) ==
    IF file_header_pattern(line) THEN OnFileHeader(st)
    ELSE IF old_file_pattern(line) THEN OnOldPath(st, line)
    ELSE IF new_file_pattern(line) THEN OnNewPath(st, line)
    ELSE IF hunk_header_pattern(line).ok /\ HunkGuard(st)
    THEN OnHunkHeader(st, hunk_header_pattern(line))
    ELSE IF st.current_hunk # NoneHunk THEN OnContent(st, line)
    ELSE st

\* The loop over all lines; it stops at the first exception.
RECURSIVE ParseLines(_, _)
ParseLines(st, lines) ==
    IF lines = <<>> \/ st.raised # "no" THEN st
    ELSE ParseLines(ParseLine(st, Head(lines)), Tail(lines))

\* The DiffFile objects a list of references denotes.
Deref(objs_, refs) == [i \in 1..Len(refs) |-> objs_[refs[i]]]

\* parse_unified_diff as a function of the whole text: the list of DiffFile
\* values it returns.
parse_unified_diff(text) ==
    IF text = <<>> THEN <<>>
    ELSE LET st == ParseLines(ParserInit, text)
         IN  Deref(st.objs, Flush(st))

\* ----------------------------------------------------------- serializer
\* The prefix generate_file_diff puts before a line's content.
LinePrefix(line_type) ==
    IF line_type = "addition" THEN "+"
    ELSE IF line_type = "deletion" THEN "-"
    ELSE " "

\* f"@@ -{old_start},{old_count} +{new_start},{new_count} @@"
HunkHeaderLine(hunk) ==
    <<"@", "@", " ", "-">> \o str(hunk.old_start) \o <<",">>
        \o str(hunk.old_count) \o <<" ", "+">> \o str(hunk.new_start)
        \o <<",">> \o str(hunk.new_count) \o <<" ", "@", "@">>

\* The lines generate_file_diff appends for one hunk.
HunkLines(hunk) ==
    <<HunkHeaderLine(hunk)>> \o
    [i \in 1..Len(hunk.lines) |->
        <<LinePrefix(hunk.lines[i].line_type)>> \o hunk.lines[i].content]

RECURSIVE HunksLines(_)
HunksLines(hunks) ==
    IF hunks = <<>> THEN <<>>
    ELSE HunkLines(Head(hunks)) \o HunksLines(Tail(hunks))


\* -------------------------------------------------------- token counting
RECURSIVE SumLen(_)
SumLen(lines) ==
    IF lines = <<>> THEN 0 ELSE Len(Head(lines)) + SumLen(Tail(lines))

\* A Python string, as its lines and its len(): every line followed by a
\* newline (the input text, "".join(s + "\n" ...)) ...
Terminated(lines) == [lines |-> lines, chars |-> SumLen(lines) + Len(lines)]
\* ... or "\n".join(lines), with no newline after the last line.
Joined(lines) ==
    [lines |-> lines,
     chars |-> IF lines = <<>> THEN 0 ELSE SumLen(lines) + Len(lines) - 1]
\* s + "\n"
PlusNewline(s) == Terminated(s.lines)
\* s + t for two strings whose lines all end with a newline.
Concat(s, t) == Terminated(s.lines \o t.lines)

IsSpace(c) == c \in {" ", "\t"}
\* The words str.split() finds in one line.
WordsInLine(line) ==
    Cardinality({i \in 1..Len(line) :
                    ~IsSpace(line[i]) /\ (i = 1 \/ IsSpace(line[i - 1]))})
RECURSIVE Words(_)
Words(lines) ==
    IF lines = <<>> THEN 0 ELSE WordsInLine(Head(lines)) + Words(Tail(lines))

\* count_tokens. With encoding "cl100k_base" the count is len(encoding.encode
\* (text)); the encoder is a third-party library, taken here as one token
\* per character; chars is len(text). With "fallback" the encoder raised and
\* the count is int(len(text.split()) / 0.75).
Encodings == {"cl100k_base", "fallback"}
count_tokens(text, encoding) ==
    IF encoding = "cl100k_base" THEN text.chars
    ELSE (Words(text.lines) * 4) \div 3

\* generate_file_diff: "\n".join(lines).
generate_file_diff(file) ==
    Joined(<< <<"-", "-", "-", " ">> \o file.old_path,
              <<"+", "+", "+", " ">> \o file.new_path >>
           \o HunksLines(file.hunks))

\* "".join(generate_file_diff(file) + "\n" for file in fs)
RECURSIVE RenderAll(_)
RenderAll(fs) ==
    IF fs = <<>> THEN Terminated(<<>>)
    ELSE Concat(PlusNewline(generate_file_diff(Head(fs))), RenderAll(Tail(fs)))

\* ------------------------------------------------- optimizer, strategy 1
\* Mutants of UnderLimit: "<" for "<=", and the comparison turned around.
UnderLimitStrict(tokens, budget) == tokens < budget
UnderLimitInverted(tokens, budget) == tokens >= budget
\* Line 61: "if current_tokens <= max_tokens".
UnderLimit(tokens, budget) == tokens <= budget
\* Line 117: "if reduced_tokens <= max_tokens".
ReducedUnderLimit(tokens, budget) == tokens <= budget

\* Lines 75-88: the maximal runs of lines of one line_type, in order.
RECURSIVE Blocks(_, _)
Blocks(acc, lines) ==
    IF lines = <<>> THEN acc
    ELSE LET l == Head(lines)
             n == Len(acc)
         IN  IF n > 0 /\ acc[n].type = l.line_type
             THEN Blocks([acc EXCEPT ![n].lines = Append(@, l)], Tail(lines))
             ELSE Blocks(Append(acc, [type |-> l.line_type, lines |-> <<l>>]),
                         Tail(lines))

Min(a, b) == IF a <= b THEN a ELSE b

\* Mutant of KeepOfBlock: every block is cut like a first or last context block.
KeepOfBlockAnyType(block, i, n) ==
    SubSeq(block.lines, 1, Min(2, Len(block.lines)))
\* Mutant of KeepOfBlock: an interior context block is cut like a first or
\* last one, to its first two lines.
KeepOfBlockEdgeRule(block, i, n) ==
    IF block.type \in {"addition", "deletion"} THEN block.lines
    ELSE SubSeq(block.lines, 1, Min(2, Len(block.lines)))
\* Lines 92-105: what is kept of block i of n blocks.
KeepOfBlock(block, i, n) ==
    IF block.type \in {"addition", "deletion"} THEN block.lines
    ELSE IF block.type = "context" THEN
        IF i = 1 \/ i = n
        THEN SubSeq(block.lines, 1, Min(2, Len(block.lines)))
        ELSE IF Len(block.lines) <= 2 THEN block.lines
        ELSE <<block.lines[1], block.lines[Len(block.lines)]>>
    ELSE <<>>

\* Lines 91-105 for a whole hunk: essential_lines.
RECURSIVE EssentialFrom(_, _)
EssentialFrom(blocks, i) ==
    IF i > Len(blocks) THEN <<>>
    ELSE KeepOfBlock(blocks[i], i, Len(blocks)) \o EssentialFrom(blocks, i + 1)
EssentialLines(hunk) == EssentialFrom(Blocks(<<>>, hunk.lines), 1)

\* Mutant of ReducedHunk: the counts of the header are recomputed from the
\* lines that were kept.
ReducedHunkRecounted(hunk) ==
    LET kept == EssentialLines(hunk)
        Count(types) ==
            Cardinality({k \in 1..Len(kept) : kept[k].line_type \in types})
    IN  [DiffHunk(hunk.old_start, Count({"deletion", "context"}),
                  hunk.new_start, Count({"addition", "context"}))
            EXCEPT !.lines = kept]
\* Lines 70-108: the reduced hunk carries the header fields of the original.
ReducedHunk(hunk) ==
    [DiffHunk(hunk.old_start, hunk.old_count, hunk.new_start, hunk.new_count)
        EXCEPT !.lines = EssentialLines(hunk)]

\* Lines 67-110.
ReducedFile(file) ==
    [DiffFile(file.old_path, file.new_path)
        EXCEPT !.hunks = [j \in 1..Len(file.hunks) |-> ReducedHunk(file.hunks[j])]]

\* ------------------------------------------------- optimizer, strategy 2
\* Lines 124-128.
ChangeCountOfHunks(hunks) ==
    LET RECURSIVE Sum(_)
        Sum(j) == IF j > Len(hunks) THEN 0
                  ELSE Cardinality({k \in 1..Len(hunks[j].lines) :
                           hunks[j].lines[k].line_type \in {"addition", "deletion"}})
                       + Sum(j + 1)
    IN  Sum(1)
change_count(file) == ChangeCountOfHunks(file.hunks)

\* Line 132: list.sort(key=change count, reverse=True) is stable: files with
\* equal counts keep their order. The result as a sequence of indices into fs.
RankOrder(fs) ==
    LET n == Len(fs)
        Before(a, b) ==
            \/ change_count(fs[a]) > change_count(fs[b])
            \/ (change_count(fs[a]) = change_count(fs[b]) /\ a < b)
        Pos(a) == 1 + Cardinality({b \in 1..n : Before(b, a)})
    IN  [p \in 1..n |-> CHOOSE a \in 1..n : Pos(a) = p]

\* ------------------------------------------- optimizer, end of strategy 2
\* token_counter.py ends inside the loop of strategy 2, after file_tokens is
\* computed (line 140). What follows is the rest of the loop and the return.

\* A ranked file is included when it does not push the running total past
\* max_tokens.
Fits(tokens_so_far, file_tokens, budget) ==
    tokens_so_far + file_tokens <= budget

\* The returned text: the renders of the included files in ranked order, or,
\* when no file was included, the render of the highest-ranked file as it is.
Strategy2Result(included, ranked) ==
    IF included # <<>> THEN RenderAll(included)
    ELSE IF ranked # <<>> THEN generate_file_diff(ranked[1])
    ELSE Terminated(<<>>)

\* -------------------------------------------------------------- chunker
\* One iteration of the loop of chunk_diff_by_files (lines 218-232) on the
\* accumulator [chunks, current_chunk, current_files]. The "language" entry
\* of a chunk is not modelled.
CloseChunk(acc) ==
    Append(acc.chunks, [diff |-> acc.current_chunk, files |-> acc.current_files])

ChunkFile(acc, file, max_chunk_size) ==
    LET file_diff == generate_file_diff(file)
        full == /\ acc.current_chunk.chars + file_diff.chars > max_chunk_size
                /\ acc.current_chunk.chars > 0
        a == IF full
             THEN [chunks |-> CloseChunk(acc),
                   current_chunk |-> Terminated(<<>>), current_files |-> <<>>]
             ELSE acc
    IN  [a EXCEPT !.current_chunk = Concat(@, PlusNewline(file_diff)),
                  !.current_files = Append(@, get_path(file))]

RECURSIVE ChunkLoop(_, _, _)
ChunkLoop(acc, fs, max_chunk_size) ==
    IF fs = <<>> THEN acc
    ELSE ChunkLoop(ChunkFile(acc, Head(fs), max_chunk_size), Tail(fs),
                   max_chunk_size)

\* chunk_diff_by_files, given the files the parser returned.
chunk_diff_by_files(fs, max_chunk_size) ==
    LET acc == ChunkLoop([chunks |-> <<>>, current_chunk |-> Terminated(<<>>),
                          current_files |-> <<>>], fs, max_chunk_size)
    IN  IF acc.current_chunk.chars > 0 THEN CloseChunk(acc) ELSE acc.chunks

\* ------------------------------------------------------------ the inputs
\* The lines the parser is fed under Spec: every kind of line the scan tells
\* apart, in any order.
L_git   == <<"d", "i", "f", "f", " ", "-", "-", "g", "i", "t", " ",
             "a", "/", "x", " ", "b", "/", "y">>
L_old   == <<"-", "-", "-", " ", "a", "/", "x">>
L_new   == <<"+", "+", "+", " ", "b", "/", "y">>
L_hunk  == <<"@", "@", " ", "-", "1", " ", "+", "2", ",", "3", " ", "@", "@">>
L_trunc == <<"@", "@", " ", "-", "1", ",", "2">>
L_ctx   == <<" ", "k">>
L_add   == <<"+", "p">>
L_del   == <<"-", "m">>
L_nonl  == <<"\\", " ", "N">>
AnyLine ==
    {L_git, L_old, L_new, L_hunk, L_trunc, L_ctx, L_add, L_del, L_nonl}

\* The lines of a diff as diff tools write it, under SpecDiff. Section k is
\* about the file named PathOf(k); a section is an optional "diff --git"
\* line, the "---" and "+++" lines, then hunks: a header and content lines.
\* A section that git wrote has the line "diff --git" and the prefixes a/ and
\* b/ on its paths; a section that diff -u wrote has neither.
PathChars == <<"x", "y", "z", "w">>
PathOf(k) == <<PathChars[((k - 1) % 4) + 1]>>
GitLine(k) == file_header_prefix \o PathOf(k) \o <<" ", "b", "/">> \o PathOf(k)
OldLine(k, git) ==
    <<"-", "-", "-", " ">> \o (IF git THEN <<"a", "/">> ELSE <<>>) \o PathOf(k)
NewLine(k, git) ==
    <<"+", "+", "+", " ">> \o (IF git THEN <<"b", "/">> ELSE <<>>) \o PathOf(k)
\* Hunk headers come with the counts left out (1 is meant) and in full, with
\* the function context git adds after the closing @@.
HunkHeaders ==
    << <<"@", "@", " ", "-", "1", " ", "+", "1", " ", "@", "@">>,
       <<"@", "@", " ", "-", "3", ",", "2", " ", "+", "4", ",", "1", "0", " ",
         "@", "@", " ", "f">> >>
HunkLine(n) == HunkHeaders[((n - 1) % 2) + 1]
ContentChars == <<"p", "q", "r", "s", "t", "u", "v", "w">>
ContentLine(marker, n) == <<marker, ContentChars[((n - 1) % 8) + 1]>>

LineKind(line) ==
    IF file_header_pattern(line) THEN "git"
    ELSE IF old_file_pattern(line) THEN "old"
    ELSE IF new_file_pattern(line) THEN "new"
    ELSE IF hunk_header_pattern(line).ok THEN "hunk"
    ELSE "content"
CountKind(text, kind) ==
    Cardinality({i \in 1..Len(text) : LineKind(text[i]) = kind})
LastKind(text) == IF text = <<>> THEN "start" ELSE LineKind(text[Len(text)])

\* The lines that may follow the text in a diff.
DiffLinesAfter(text) ==
    LET last == LastKind(text)
        k == CountKind(text, "old") + 1
        newSection == last \in {"start", "new", "content"} /\ k <= MaxFiles
    IN  IF Len(text) >= MaxDiffLines THEN {}
        ELSE
        (IF newSection THEN {GitLine(k)} ELSE {})
        \cup (IF newSection THEN {OldLine(k, FALSE)} ELSE {})
        \cup (IF last = "git" THEN {OldLine(k, TRUE)} ELSE {})
        \cup (IF last = "old"
              THEN {NewLine(k - 1, text[Len(text)] = OldLine(k - 1, TRUE))}
              ELSE {})
        \cup (IF last \in {"new", "content"}
              THEN {HunkLine(CountKind(text, "hunk") + 1)} ELSE {})
        \cup (IF last \in {"hunk", "content"}
              THEN {ContentLine(m, CountKind(text, "content") + 1) :
                       m \in {" ", "+", "-"}}
              ELSE {})

Budgets == {k * BudgetStep : k \in (-1)..MaxBudgetSteps}
ChunkSizes == {k * ChunkStep : k \in 1..MaxChunkSteps}

\* ---------------------------------------------------------------- state
VARIABLES
    diff_text,      \* the lines of the input read so far
    files, objs, current_file, current_hunk, old_path, new_path,
    old_line_num, new_line_num,      \* the locals of parse_unified_diff
    raised,         \* the exception that ended the call, "no" if none
    pc,             \* the position of the run, see the actions
    max_tokens, encoding, current_tokens, reduced_context_files,
    reduced_diff, file_relevance, final_files,
                    \* the arguments and locals of optimize_diff_context
    visited,        \* how many entries of file_relevance the last loop has visited
    result,         \* the string optimize_diff_context returned
    max_chunk_size, chunks   \* chunk_diff_by_files: argument and result

parser_vars == <<files, objs, current_file, current_hunk, old_path, new_path,
                 old_line_num, new_line_num, raised>>
optimizer_vars == <<max_tokens, encoding, current_tokens,
                    reduced_context_files, reduced_diff, file_relevance,
                    final_files, visited, result>>
chunker_vars == <<max_chunk_size, chunks>>
vars == <<diff_text, parser_vars, pc, optimizer_vars, chunker_vars>>

\* The parser's locals as one record, and back.
ParserState ==
    [files |-> files, objs |-> objs, current_file |-> current_file,
     current_hunk |-> current_hunk, old_path |-> old_path,
     new_path |-> new_path, old_line_num |-> old_line_num,
     new_line_num |-> new_line_num, raised |-> raised]

SetParserState(st) ==
    /\ files' = st.files
    /\ objs' = st.objs
    /\ current_file' = st.current_file
    /\ current_hunk' = st.current_hunk
    /\ old_path' = st.old_path
    /\ new_path' = st.new_path
    /\ old_line_num' = st.old_line_num
    /\ new_line_num' = st.new_line_num
    /\ raised' = st.raised

\* The DiffFile values parse_unified_diff returned.
ParsedFiles == Deref(objs, files)

Init ==
    /\ diff_text = <<>>
    /\ files = <<>>
    /\ objs = <<>>
    /\ current_file = None
    /\ current_hunk = NoneHunk
    /\ old_path = NonePath
    /\ new_path = NonePath
    /\ old_line_num = Unbound
    /\ new_line_num = Unbound
    /\ raised = "no"
    /\ pc = "scan"
    /\ max_tokens = 0
    /\ encoding = "cl100k_base"
    /\ current_tokens = 0
    /\ reduced_context_files = <<>>
    /\ reduced_diff = Terminated(<<>>)
    /\ file_relevance = <<>>
    /\ final_files = <<>>
    /\ visited = 0
    /\ result = Terminated(<<>>)
    /\ max_chunk_size = 0
    /\ chunks = <<>>

\* One iteration of the scan on the next line of the input.
Scan(line) ==
    /\ pc = "scan"
    /\ diff_text' = Append(diff_text, line)
    /\ LET st == ParseLine(ParserState, line)
       IN  /\ SetParserState(st)
           /\ pc' = IF st.raised = "no" THEN "scan" ELSE "raised"
    /\ UNCHANGED <<optimizer_vars, chunker_vars>>

\* The scan under Spec: any line may come next.
Feed ==
    /\ Len(diff_text) < MaxLines
    /\ \E line \in AnyLine : Scan(line)

\* The scan under SpecDiff: the next line of a diff.
FeedDiff ==
    \E line \in DiffLinesAfter(diff_text) : Scan(line)

\* End of input: lines 145-149 (and the early return of lines 50-51 when the
\* text is empty).
Eof ==
    /\ pc = "scan"
    /\ pc' = "parsed"
    /\ files' = IF diff_text = <<>> THEN <<>> ELSE Flush(ParserState)
    /\ UNCHANGED <<diff_text, objs, current_file, current_hunk, old_path,
                   new_path, old_line_num, new_line_num, raised,
                   optimizer_vars, chunker_vars>>

\* chunk_diff_by_files after its call of parse_unified_diff.
Chunk ==
    /\ pc = "parsed"
    /\ \E m \in ChunkSizes :
          /\ max_chunk_size' = m
          /\ chunks' = chunk_diff_by_files(ParsedFiles, m)
    /\ pc' = "chunked"
    /\ UNCHANGED <<diff_text, parser_vars, optimizer_vars>>

\* optimize_diff_context after its call of parse_unified_diff: lines 57-62.
OptimizeStart ==
    /\ pc = "parsed"
    /\ \E mt \in Budgets, enc \in Encodings :
          LET tokens == count_tokens(Terminated(diff_text), enc)
          IN  /\ max_tokens' = mt
              /\ encoding' = enc
              /\ current_tokens' = tokens
              /\ IF UnderLimit(tokens, mt)
                 THEN result' = Terminated(diff_text) /\ pc' = "returned"
                 ELSE result' = result /\ pc' = "strategy1"
    /\ UNCHANGED <<diff_text, parser_vars, reduced_context_files,
                   reduced_diff, file_relevance, final_files, visited,
                   chunker_vars>>

\* Lines 64-132: strategy 1, and the ranking that opens strategy 2.
Strategy1 ==
    /\ pc = "strategy1"
    /\ LET reduced == [i \in 1..Len(ParsedFiles) |-> ReducedFile(ParsedFiles[i])]
           text == RenderAll(reduced)
           order == RankOrder(reduced)
       IN  /\ reduced_context_files' = reduced
           /\ reduced_diff' = text
           /\ IF ReducedUnderLimit(count_tokens(text, encoding), max_tokens)
              THEN /\ result' = text
                   /\ pc' = "returned"
                   /\ UNCHANGED <<file_relevance, final_files, visited,
                                  current_tokens>>
              ELSE /\ file_relevance' = [p \in 1..Len(order) |-> reduced[order[p]]]
                   /\ final_files' = <<>>
                   /\ visited' = 0
                   /\ current_tokens' = 0
                   /\ pc' = "strategy2"
                   /\ UNCHANGED result
    /\ UNCHANGED <<diff_text, parser_vars, max_tokens, encoding, chunker_vars>>

\* One iteration of the loop of lines 138-140 on the next ranked file.
Strategy2Step ==
    /\ pc = "strategy2"
    /\ visited < Len(file_relevance)
    /\ LET file == file_relevance[visited + 1]
           file_tokens == count_tokens(generate_file_diff(file), encoding)
       IN  IF Fits(current_tokens, file_tokens, max_tokens)
           THEN /\ final_files' = Append(final_files, file)
                /\ current_tokens' = current_tokens + file_tokens
           ELSE UNCHANGED <<final_files, current_tokens>>
    /\ visited' = visited + 1
    /\ UNCHANGED <<diff_text, parser_vars, pc, max_tokens, encoding,
                   reduced_context_files, reduced_diff, file_relevance,
                   result, chunker_vars>>

\* The return that ends strategy 2.
Strategy2Return ==
    /\ pc = "strategy2"
    /\ visited = Len(file_relevance)
    /\ result' = Strategy2Result(final_files, file_relevance)
    /\ pc' = "returned"
    /\ UNCHANGED <<diff_text, parser_vars, max_tokens, encoding, current_tokens,
                   reduced_context_files, reduced_diff, file_relevance,
                   final_files, visited, chunker_vars>>

Next ==
    \/ Feed
    \/ Eof

Spec == Init /\ [][Next]_vars

NextDiff ==
    \/ FeedDiff
    \/ Eof
    \/ Chunk
    \/ OptimizeStart
    \/ Strategy1
    \/ Strategy2Step
    \/ Strategy2Return

SpecDiff == Init /\ [][NextDiff]_vars

\* ===================================================== the claims, parser
\* Every hunk of every returned file, and every line of them.
HunksOf(fs) ==
    UNION {{fs[i].hunks[j] : j \in 1..Len(fs[i].hunks)} : i \in 1..Len(fs)}
LinesOf(fs) ==
    UNION {{h.lines[k] : k \in 1..Len(h.lines)} : h \in HunksOf(fs)}

\* Replaying the lines of a hunk from the cursors old and new: each recorded
\* number is the cursor of its side.
RECURSIVE Replays(_, _, _)
Replays(lines, old, new) ==
    IF lines = <<>> THEN TRUE
    ELSE LET l == Head(lines)
             onOld == l.line_type \in {"context", "deletion"}
             onNew == l.line_type \in {"context", "addition"}
         IN  /\ onOld => l.old_line_num = old
             /\ onNew => l.new_line_num = new
             /\ Replays(Tail(lines), IF onOld THEN old + 1 ELSE old,
                        IF onNew THEN new + 1 ELSE new)

\* C2. Line-number consistency: for every hunk of every file the parser
\* returns, replaying the hunk's lines with an old cursor from old_start and a
\* new cursor from new_start (old +1 on context and deletion, new +1 on
\* context and addition) gives the numbers recorded on each line.
C2_LineNumberConsistency ==
    pc = "parsed" =>
        \A h \in HunksOf(ParsedFiles) : Replays(h.lines, h.old_start, h.new_start)

\* A returned hunk that starts with a context line and has a line after it.
C2_Witness ==
    /\ pc = "parsed"
    /\ \E h \in HunksOf(ParsedFiles) :
          /\ Len(h.lines) >= 2
          /\ h.lines[1].line_type = "context"
          /\ h.old_start # h.new_start

\* Lines no branch of the scan interprets, whatever the state: they match no
\* pattern and start with none of "+", "-", " ".
Uninterpretable(line) ==
    /\ LineKind(line) = "content"
    /\ ~HasPrefix(line, <<"+">>)
    /\ ~HasPrefix(line, <<"-">>)
    /\ ~HasPrefix(line, <<" ">>)
Interpretable(line) == ~Uninterpretable(line)

\* C6. The parser never fails: whatever the input, no exception ends the
\* scan; the result is a sequence of DiffFile objects; the lines the scan
\* cannot interpret are skipped (the result is that of the text without
\* them); the empty input gives the empty sequence.
C6_ParserNeverFails ==
    /\ raised = "no"
    /\ pc # "raised"
    /\ \A i \in 1..Len(files) : files[i] \in 1..Len(objs)
    /\ pc = "parsed" =>
          /\ diff_text = <<>> => ParsedFiles = <<>>
          /\ ParsedFiles = parse_unified_diff(SelectSeq(diff_text, Interpretable))

\* A hunk header met with no file open, and a returned hunk whose text holds
\* a line that starts with none of the markers.
C6_Witness ==
    /\ pc = "parsed"
    /\ \E i \in 1..Len(diff_text) :
          /\ hunk_header_pattern(diff_text[i]).ok
          /\ \A j \in 1..(i - 1) : LineKind(diff_text[j]) # "new"
    /\ \E i \in 1..Len(diff_text) :
          /\ Uninterpretable(diff_text[i])
          /\ \E j \in 1..(i - 1) : LineKind(diff_text[j]) = "new"
    /\ Len(ParsedFiles) = 1

Absent(n) == n = NoNum

\* C9 as claimed: on every DiffLine the parser produces exactly one of
\* old_line_num and new_line_num is absent, and the line's kind alone says
\* which.
C9_ExactlyOneAbsent ==
    \A l \in LinesOf(objs) :
        /\ Absent(l.old_line_num) # Absent(l.new_line_num)
        /\ Absent(l.old_line_num) <=> l.line_type = "addition"

\* C9 as amended: at most one of the two numbers is absent, and the kind
\* alone says which: an addition has no old number, a deletion no new number,
\* a context line has both.
C9_AbsentByKind ==
    \A l \in LinesOf(objs) :
        /\ Absent(l.old_line_num) <=> l.line_type = "addition"
        /\ Absent(l.new_line_num) <=> l.line_type = "deletion"
        /\ ~(Absent(l.old_line_num) /\ Absent(l.new_line_num))

\* The parser has produced a context line and a deletion.
C9_Witness ==
    /\ \E l \in LinesOf(objs) : l.line_type = "context"
    /\ \E l \in LinesOf(objs) : l.line_type = "deletion"

\* A "+++" line at index i is paired when a "---" line of its own file
\* section precedes it: a "---" line with no "diff --git" line and no other
\* "+++" line between the two (a "+++" line closes the header of a section, a
\* "diff --git" line opens the next).
PairedNew(text, i) ==
    \E j \in 1..(i - 1) :
        /\ LineKind(text[j]) = "old"
        /\ \A k \in (j + 1)..(i - 1) : LineKind(text[k]) \notin {"git", "new"}
NewLines(text) == {i \in 1..Len(text) : LineKind(text[i]) = "new"}
LastNew(text) == CHOOSE i \in NewLines(text) : \A k \in NewLines(text) : k <= i

\* C10. Unpaired new-path header: when the last "+++" line read has no "---"
\* line of its own section before it, that line created no DiffFile and no
\* later line was attached to a file: the DiffFile objects are those that
\* existed before it, unchanged, until a valid pair is read.
C10_UnpairedNewPathDropped ==
    (NewLines(diff_text) # {} /\ ~PairedNew(diff_text, LastNew(diff_text))) =>
        objs = ParseLines(ParserInit,
                          SubSeq(diff_text, 1, LastNew(diff_text) - 1)).objs

\* ======================================= the claims, serializer and chunker
\* The structured model the round trip compares: paths, hunk header fields,
\* and the kind and content of every line.
LineView(l) == [content |-> l.content, line_type |-> l.line_type]
HunkView(h) ==
    [old_start |-> h.old_start, old_count |-> h.old_count,
     new_start |-> h.new_start, new_count |-> h.new_count,
     lines |-> [k \in 1..Len(h.lines) |-> LineView(h.lines[k])]]
FileView(f) ==
    [old_path |-> f.old_path, new_path |-> f.new_path,
     hunks |-> [j \in 1..Len(f.hunks) |-> HunkView(f.hunks[j])]]
ModelView(fs) == [i \in 1..Len(fs) |-> FileView(fs[i])]

\* A diff as git writes it: every "---" line comes right after the
\* "diff --git" line of its section.
GitStyle(text) ==
    \A i \in 1..Len(text) :
        LineKind(text[i]) = "old" => (i > 1 /\ LineKind(text[i - 1]) = "git")

\* C1. Round trip: for a well-formed input d, with any number of files,
\* parsing d, rendering every parsed file and parsing the rendered text
\* gives the model of the first parse: the same files in the same order, with
\* the same paths, hunk headers, line kinds and line contents.
C1_RoundTrip ==
    (pc = "parsed" /\ GitStyle(diff_text)) =>
        ModelView(parse_unified_diff(RenderAll(ParsedFiles).lines))
            = ModelView(ParsedFiles)

\* The paths of the file sections of a text, in order: one per "+++" line.
InputFilePaths(text) ==
    LET news == SelectSeq(text, new_file_pattern)
    IN  [k \in 1..Len(news) |-> new_match_group1(news[k])]

RECURSIVE ChunkFilePaths(_)
ChunkFilePaths(cs) ==
    IF cs = <<>> THEN <<>> ELSE Head(cs).files \o ChunkFilePaths(Tail(cs))

\* C5. Chunk coverage: the file_paths lists of the chunks, concatenated in
\* chunk order, are the files of the input diff in order, each once.
C5_ChunkCoverage ==
    pc = "chunked" => ChunkFilePaths(chunks) = InputFilePaths(diff_text)

\* ================================================= the claims, optimizer
InputTokens == count_tokens(Terminated(diff_text), encoding)

\* C3. No-op within budget: when count_tokens(d) <= max_tokens the optimizer
\* returns d itself, character for character, and so "" for "".
C3_NoOpWithinBudget ==
    (pc = "returned" /\ InputTokens <= max_tokens) =>
        result = Terminated(diff_text)

\* A diff within budget was returned, and rendering its parse would have
\* given another text.
C3_Witness ==
    /\ pc = "returned"
    /\ InputTokens <= max_tokens
    /\ ParsedFiles # <<>>
    /\ RenderAll([i \in 1..Len(ParsedFiles) |-> ReducedFile(ParsedFiles[i])])
          # Terminated(diff_text)

\* The addition and deletion lines of a hunk, in order.
IsChange(l) == l.line_type \in {"addition", "deletion"}
Changes(hunk) == SelectSeq(hunk.lines, IsChange)

\* Strategy 1 has run: the optimizer was over budget at line 61.
Thinned == pc \in {"strategy2", "returned"} /\ InputTokens > max_tokens

\* C4. Change preservation under thinning: file by file and hunk by hunk,
\* the addition and deletion lines of the context-thinned files are those of
\* the parsed diff, in the same order and with the same content.
C4_ChangePreservation ==
    Thinned =>
        /\ Len(reduced_context_files) = Len(ParsedFiles)
        /\ \A i \in 1..Len(ParsedFiles) :
              /\ Len(reduced_context_files[i].hunks) = Len(ParsedFiles[i].hunks)
              /\ \A j \in 1..Len(ParsedFiles[i].hunks) :
                    Changes(reduced_context_files[i].hunks[j])
                        = Changes(ParsedFiles[i].hunks[j])

\* Thinning dropped context lines from a hunk that holds at least two changes.
C4_Witness ==
    /\ Thinned
    /\ \E i \in 1..Len(ParsedFiles) : \E j \in 1..Len(ParsedFiles[i].hunks) :
          /\ Len(reduced_context_files[i].hunks[j].lines)
                < Len(ParsedFiles[i].hunks[j].lines)
          /\ Len(Changes(ParsedFiles[i].hunks[j])) >= 2

\* C7. Best-effort result: for a non-empty input over budget the optimizer
\* returns a non-empty string.
C7_NeverEmpty ==
    (pc = "returned" /\ diff_text # <<>> /\ InputTokens > max_tokens) =>
        result.chars > 0

ResultTokens == count_tokens(result, encoding)

SectionStarts(text) ==
    {i \in 1..(Len(text) - 1) :
        LineKind(text[i]) = "old" /\ LineKind(text[i + 1]) = "new"}
SectionEnd(text, i) ==
    LET later == {j \in (i + 1)..Len(text) : LineKind(text[j]) = "old"}
    IN  IF later = {} THEN Len(text)
        ELSE (CHOOSE j \in later : \A k \in later : j <= k) - 1
HunklessSections(text) ==
    {i \in SectionStarts(text) :
        \A j \in i..SectionEnd(text, i) : LineKind(text[j]) # "hunk"}
SectionPath(text, i) == new_match_group1(text[i + 1])

\* C11. Hunk-less section: every file section of the input that has no hunk
\* gives exactly one DiffFile of the parse result, and that DiffFile has an
\* empty hunk list.
C11_HunklessSectionKept ==
    pc = "parsed" =>
        \A i \in HunklessSections(diff_text) :
            Cardinality({n \in 1..Len(ParsedFiles) :
                /\ ParsedFiles[n].new_path = SectionPath(diff_text, i)
                /\ ParsedFiles[n].hunks = <<>>}) = 1

\* ===================================== the claims, chunker (second part)
\* The number of files in the chunks before chunk n.
RECURSIVE FilesBefore(_, _)
FilesBefore(cs, n) ==
    IF n <= 1 THEN 0 ELSE FilesBefore(cs, n - 1) + Len(cs[n - 1].files)

\* The files a chunk holds: those at its positions in the parsed sequence.
FilesOfChunk(cs, n) ==
    SubSeq(ParsedFiles, FilesBefore(cs, n) + 1,
           FilesBefore(cs, n) + Len(cs[n].files))

\* C12. Size-bounded groups of whole files: the text of every chunk is the
\* renders of the files it lists, whole and in order, and a chunk whose text
\* is longer than max_chunk_size holds exactly one file.
C12_ChunkSizeBound ==
    pc = "chunked" =>
        \A n \in 1..Len(chunks) :
            /\ chunks[n].diff = RenderAll(FilesOfChunk(chunks, n))
            /\ chunks[n].diff.chars > max_chunk_size =>
                   Len(chunks[n].files) = 1

\* =================================== the claims, optimizer (second part)
\* C13. Precondition check: a call with a negative max_tokens ends with an
\* exception before any strategy runs; it never reaches strategy 1 or
\* strategy 2 and never returns a result.
C13_NegativeBudgetFailsFast ==
    max_tokens < 0 => (raised # "no" /\ pc = "raised")

\* The maximal run of lines of one kind around line k of a hunk: its first
\* and its last index.
RunStart(lines, k) ==
    CHOOSE a \in 1..k :
        /\ \A m \in a..k : lines[m].line_type = lines[k].line_type
        /\ a = 1 \/ lines[a - 1].line_type # lines[k].line_type
RunEnd(lines, k) ==
    CHOOSE b \in k..Len(lines) :
        /\ \A m \in k..b : lines[m].line_type = lines[k].line_type
        /\ b = Len(lines) \/ lines[b + 1].line_type # lines[k].line_type

\* The thinning rule, line by line: is line k of the hunk kept?
KeptByRule(lines, k) ==
    LET a == RunStart(lines, k)
        b == RunEnd(lines, k)
    IN  IF lines[k].line_type # "context" THEN TRUE
        ELSE IF a = 1 \/ b = Len(lines) THEN k < a + Min(2, b - a + 1)
        ELSE IF b - a + 1 > 2 THEN k \in {a, b}
        ELSE TRUE

\* The lines the rule keeps from index k on, in their original order.
RECURSIVE KeptFrom(_, _)
KeptFrom(lines, k) ==
    IF k > Len(lines) THEN <<>>
    ELSE (IF KeptByRule(lines, k) THEN <<lines[k]>> ELSE <<>>)
             \o KeptFrom(lines, k + 1)

\* C14. Strategy-1 thinning rule: the lines of every thinned hunk are the
\* lines of the parsed hunk, in their original order, without the context
\* lines the rule drops: a first or last context run keeps its first
\* min(2, length) lines, an interior context run of more than 2 lines keeps
\* its first and its last line, an interior run of at most 2 lines is kept.
C14_ThinningRule ==
    Thinned =>
        /\ Len(reduced_context_files) = Len(ParsedFiles)
        /\ \A i \in 1..Len(ParsedFiles) :
              /\ Len(reduced_context_files[i].hunks) = Len(ParsedFiles[i].hunks)
              /\ \A j \in 1..Len(ParsedFiles[i].hunks) :
                    reduced_context_files[i].hunks[j].lines
                        = KeptFrom(ParsedFiles[i].hunks[j].lines, 1)

\* Thinning met an interior context run of more than 2 lines and kept two
\* lines of it.
C14_Witness ==
    /\ Thinned
    /\ \E i \in 1..Len(ParsedFiles) : \E j \in 1..Len(ParsedFiles[i].hunks) :
          LET lines == ParsedFiles[i].hunks[j].lines
          IN  \E k \in 1..Len(lines) :
                /\ lines[k].line_type = "context"
                /\ RunStart(lines, k) > 1
                /\ RunEnd(lines, k) < Len(lines)
                /\ RunEnd(lines, k) - RunStart(lines, k) + 1 > 2
                /\ Len(reduced_context_files[i].hunks[j].lines)
                      = Len(lines) - (RunEnd(lines, k) - RunStart(lines, k) - 1)

\* The token count of a file's render, and of a list of files, each counted
\* on its own as the loop of strategy 2 counts them.
FileTokens(file) == count_tokens(generate_file_diff(file), encoding)
RECURSIVE TokensOf(_)
TokensOf(fs) ==
    IF fs = <<>> THEN 0 ELSE FileTokens(Head(fs)) + TokensOf(Tail(fs))

\* Was the file at position p of the ranking included?
Included(p) ==
    \E q \in 1..Len(final_files) : final_files[q] = file_relevance[p]
\* The ranked files before position p that were included, in ranked order.
IncludedBefore(p) ==
    SelectSeq(SubSeq(file_relevance, 1, p - 1),
              LAMBDA f : \E q \in 1..Len(final_files) : final_files[q] = f)
\* The position of a thinned file in the order the files were met.
Encounter(file) ==
    CHOOSE i \in 1..Len(reduced_context_files) : reduced_context_files[i] = file

\* The ranking is by descending change count, ties in encounter order.
RankedByChanges ==
    \A p, q \in 1..Len(file_relevance) :
        p < q =>
            \/ change_count(file_relevance[p]) > change_count(file_relevance[q])
            \/ /\ change_count(file_relevance[p]) = change_count(file_relevance[q])
               /\ Encounter(file_relevance[p]) < Encounter(file_relevance[q])

\* Every file visited so far was included exactly when it fitted on top of
\* the files included before it; the others were skipped.
GreedyIncluded ==
    \A p \in 1..visited :
        Included(p) <=>
            TokensOf(IncludedBefore(p)) + FileTokens(file_relevance[p])
                <= max_tokens

C16_ThinningFrame ==
    [][pc = "strategy1" =>
         /\ objs' = objs
         /\ files' = files
         /\ Len(reduced_context_files') = Len(ParsedFiles)
         /\ \A i \in 1..Len(ParsedFiles) :
               /\ Len(reduced_context_files'[i].hunks) = Len(ParsedFiles[i].hunks)
               /\ \A j \in 1..Len(ParsedFiles[i].hunks) :
                     LET h == ParsedFiles[i].hunks[j]
                         r == reduced_context_files'[i].hunks[j]
                     IN  /\ r.old_start = h.old_start
                         /\ r.old_count = h.old_count
                         /\ r.new_start = h.new_start
                         /\ r.new_count = h.new_count]_vars

\* Strategy 1 has dropped lines from a hunk of a parsed file that is still
\* whole.
C16_Witness ==
    /\ Thinned
    /\ ParsedFiles = parse_unified_diff(diff_text)
    /\ \E i \in 1..Len(ParsedFiles) : \E j \in 1..Len(ParsedFiles[i].hunks) :
          Len(reduced_context_files[i].hunks[j].lines)
              < Len(ParsedFiles[i].hunks[j].lines)

\* ======================================= the claims, parser (third part)
\* The references a list holds.
Refs(list) == {list[i] : i \in 1..Len(list)}

\* C17. No parsed file is lost: at every step of the scan every DiffFile
\* instantiated so far is the current file or is in files already, and the
\* returned sequence holds every instantiated DiffFile exactly once, in the
\* order of instantiation (the order of the input).
C17_NoFileLost ==
    /\ pc = "scan" =>
          \A o \in 1..Len(objs) : o = current_file \/ o \in Refs(files)
    /\ pc = "parsed" => files = [i \in 1..Len(objs) |-> i]

\* C18. Hunk ownership: after every step of the scan, a current hunk is the
\* last hunk of the current file (so a file is current whenever a hunk is),
\* and a step changes no DiffFile other than the current file: a content
\* line is appended only to a hunk of the file whose headers were seen last.
C18_HunkOwnership ==
    [][pc' = "scan" =>
         /\ current_hunk' # NoneHunk =>
               /\ current_file' # None
               /\ current_hunk'[1] = current_file'
               /\ current_hunk'[2] = Len(objs'[current_file'].hunks)
         /\ \A o \in 1..Len(objs) : objs'[o] # objs[o] => o = current_file']_vars

====
